---- MODULE Spec2Model ----
(***************************************************************************)
(* The key store of crypto/keys/keybase.go (dbKeybase) as a state machine. *)
(* The persistent store is db, one action per exported method; ret is the  *)
(* call that returned last (its name argument and its results); calls are  *)
(* the creating calls of goroutines that share the store.                  *)
(***************************************************************************)
EXTENDS Integers, Sequences, FiniteSets, TLC

VARIABLES db, device, pending, ret, calls

vars == <<db, device, pending, ret, calls>>

----------------------------------------------------------------------------
(* Bounds of the model *)

\* number of distinct fresh entropies bip39.NewMnemonic can draw
NumEntropy == 1
\* number of distinct hardware devices that can be attached (two, so that
\* the device attached when signing can differ from the one registered)
NumDevices == 2

----------------------------------------------------------------------------
(* Input domains *)

\* names as byte strings: "a", "a-", with '-' = 45 sorting below '.' = 46
Names == { <<97>>, <<97, 45>> }

\* passphrases and confirmation tokens handed to Sign, Delete and Update
Passphrases == { "", "pw1", "yes" }

\* passphrases handed to the creating methods ("" asks for a public-key-only
\* record) and passphrases the new-passphrase source of Update returns
CreatePassphrases == { "", "pw1" }

NewPassphrases == { "pw1", "yes" }

Msgs == { "msg" }

\* Language (keybase.go:25-43): English = 1, Japanese = 2
Languages == { "English", "Japanese" }

\* SigningAlgo: Secp256k1 is the supported one
Algos == { "Secp256k1", "Ed25519" }

\* BIP 44 paths handed to Derive and CreateLedger
HDPaths == { 1 }

\* hd.FullFundraiserPath, the default path
FullFundraiserPath == CHOOSE p \in HDPaths : \A q \in HDPaths : p <= q

\* a mnemonic: its number of words, the entropy it encodes, whether its
\* checksum and words are valid
Mnemonic(n, ent, ok) == [n |-> n, ent |-> ent, ok |-> ok]

FreshMnemonics == { Mnemonic(24, e, TRUE) : e \in 1..NumEntropy }

\* mnemonics handed to CreateKey and CreateFundraiserKey: the fresh ones, a
\* valid 12-word one, a 12-word one that fails the checksum, a 15-word one
MnemonicInputs ==
    FreshMnemonics \cup
    { Mnemonic(12, 1, TRUE), Mnemonic(12, 1, FALSE), Mnemonic(15, 1, TRUE) }

\* mnemonics handed to Derive
DeriveMnemonics == { Mnemonic(12, 1, TRUE), Mnemonic(12, 1, FALSE) }

----------------------------------------------------------------------------
(* Cryptography provider *)

\* bip39.NewMnemonic(bip39.FreshKey): 24 words of fresh entropy
NewMnemonic(ent) == Mnemonic(24, ent, TRUE)

\* len(strings.Split(mnemonic, " "))
WordCount(m) == m.n

\* bip39.MnemonicToSeed
MnemonicToSeed(m) == m.n * 10 + m.ent

\* bip39.MnemonicToSeedWithErrChecking
MnemonicToSeedWithErrChecking(m) ==
    IF m.ok THEN [err |-> "OK", seed |-> MnemonicToSeed(m)]
    ELSE [err |-> "InvalidMnemonic", seed |-> 0]

\* hd.ComputeMastersFromSeed followed by hd.DerivePrivateKeyForPath
DerivePrivateKeyForPath(seed, path) ==
    IF path \in HDPaths THEN [err |-> "OK", priv |-> seed * 10 + path]
    ELSE [err |-> "DerivationError", priv |-> 0]

\* priv.PubKey() of a local secp256k1 key
PubKeyOf(priv) == 2 * priv + 1

\* the public key a device answers with for a path
LedgerPubKey(dev, path) == 2 * (dev * 10 + path)

\* crypto.NewPrivKeyLedgerSecp256k1(path): the handshake with the device
NewPrivKeyLedgerSecp256k1(dev, path) ==
    IF dev = 0 THEN [err |-> "DeviceUnavailable", pub |-> 0, path |-> path]
    ELSE [err |-> "OK", pub |-> LedgerPubKey(dev, path), path |-> path]

LocalPrivs ==
    { DerivePrivateKeyForPath(MnemonicToSeed(m), FullFundraiserPath).priv :
        m \in { x \in MnemonicInputs : x.ok /\ x.n \in {12, 24} } }
    \cup { DerivePrivateKeyForPath(MnemonicToSeed(m), p).priv :
        m \in { x \in DeriveMnemonics : x.ok }, p \in HDPaths }

LedgerPubs == { LedgerPubKey(d, p) : d \in 1..NumDevices, p \in HDPaths }

PubKeys == { PubKeyOf(k) : k \in LocalPrivs } \cup LedgerPubs

NoSig == [by |-> 0, msg |-> ""]

\* priv.Sign(msg) with a local key
SignWith(priv, msg) == [by |-> PubKeyOf(priv), msg |-> msg]

\* priv.Sign(msg) on the device
LedgerSign(dev, path, msg) == [by |-> LedgerPubKey(dev, path), msg |-> msg]

\* pub.VerifyBytes(msg, sig)
VerifyBytes(pub, msg, sig) == sig.by = pub /\ sig.msg = msg

----------------------------------------------------------------------------
(* Armor codec and record serialization *)

\* encryptArmorPrivKey(priv, passphrase): the private key sealed under the
\* passphrase, framed as private-key armor
encryptArmorPrivKey(priv, passphrase) ==
    << "TENDERMINT PRIVATE KEY", passphrase, priv >>

\* unarmorDecryptPrivKey(armor, passphrase)
unarmorDecryptPrivKey(armorStr, passphrase) ==
    IF Len(armorStr) # 3 \/ armorStr[1] # "TENDERMINT PRIVATE KEY"
    THEN [err |-> "MalformedArmor", priv |-> 0]
    ELSE IF armorStr[2] # passphrase
    THEN [err |-> "WrongPassphrase", priv |-> 0]
    ELSE [err |-> "OK", priv |-> armorStr[3]]

\* pub.Bytes() and tcrypto.PubKeyFromBytes
PubKeyBytes(pub) == << "PubKeySecp256k1", pub >>

PubKeyFromBytes(bz) ==
    IF Len(bz) = 2 /\ bz[1] = "PubKeySecp256k1"
    THEN [err |-> "OK", pub |-> bz[2]]
    ELSE [err |-> "MalformedArmor", pub |-> 0]

\* the three Info variants
newLocalInfo(name, pub, privArmor) ==
    [type |-> "local", Name |-> name, PubKey |-> pub,
     PrivKeyArmor |-> privArmor, Path |-> 0]

newLedgerInfo(name, pub, path) ==
    [type |-> "ledger", Name |-> name, PubKey |-> pub,
     PrivKeyArmor |-> <<>>, Path |-> path]

newOfflineInfo(name, pub) ==
    [type |-> "offline", Name |-> name, PubKey |-> pub,
     PrivKeyArmor |-> <<>>, Path |-> 0]

NoInfo ==
    [type |-> "none", Name |-> <<>>, PubKey |-> 0,
     PrivKeyArmor |-> <<>>, Path |-> 0]

\* writeInfo(info): the amino bytes of a record (type prefix, then fields)
writeInfo(info) ==
    CASE info.type = "local" ->
           << "localInfo", info.Name, PubKeyBytes(info.PubKey), info.PrivKeyArmor >>
      [] info.type = "ledger" ->
           << "ledgerInfo", info.Name, PubKeyBytes(info.PubKey), << info.Path >> >>
      [] OTHER ->
           << "offlineInfo", info.Name, PubKeyBytes(info.PubKey) >>

\* readInfo(bz)
readInfo(bz) ==
    IF Len(bz) = 4 /\ bz[1] = "localInfo"
    THEN [err |-> "OK", info |-> newLocalInfo(bz[2], PubKeyFromBytes(bz[3]).pub, bz[4])]
    ELSE IF Len(bz) = 4 /\ bz[1] = "ledgerInfo"
    THEN [err |-> "OK", info |-> newLedgerInfo(bz[2], PubKeyFromBytes(bz[3]).pub, bz[4][1])]
    ELSE IF Len(bz) = 3 /\ bz[1] = "offlineInfo"
    THEN [err |-> "OK", info |-> newOfflineInfo(bz[2], PubKeyFromBytes(bz[3]).pub)]
    ELSE [err |-> "DecodeError", info |-> NoInfo]

\* armorInfoBytes / unarmorInfoBytes, armorPubKeyBytes / unarmorPubKeyBytes
armorInfoBytes(bz) == << "TENDERMINT KEY INFO", bz >>

armorPubKeyBytes(bz) == << "TENDERMINT PUBLIC KEY", bz >>

unarmorInfoBytes(armorStr) ==
    IF Len(armorStr) = 2 /\ armorStr[1] = "TENDERMINT KEY INFO"
    THEN [err |-> "OK", bz |-> armorStr[2]]
    ELSE [err |-> "MalformedArmor", bz |-> <<>>]

unarmorPubKeyBytes(armorStr) ==
    IF Len(armorStr) = 2 /\ armorStr[1] = "TENDERMINT PUBLIC KEY"
    THEN [err |-> "OK", bz |-> armorStr[2]]
    ELSE [err |-> "MalformedArmor", bz |-> <<>>]

----------------------------------------------------------------------------
(* The store *)

\* infoKey(name): name followed by ".info"
infoKey(name) == name \o << 46, 105, 110, 102, 111 >>

Keys == { infoKey(n) : n \in Names }

\* db.Get of a key that is not stored
Absent == <<>>

\* kb.writeInfo keeping a record that is already stored under the name
kbWriteInfoIfAbsent(d, info, name) ==
    IF d[infoKey(name)] = Absent
    THEN [d EXCEPT ![infoKey(name)] = writeInfo(info)]
    ELSE d

\* kb.writeInfo(info, name): db.SetSync(infoKey(name), writeInfo(info))
kbWriteInfo(d, info, name) == [d EXCEPT ![infoKey(name)] = writeInfo(info)]

writeLocalKey(d, priv, name, passphrase) ==
    LET privArmor == encryptArmorPrivKey(priv, passphrase)
        pub == PubKeyOf(priv)
        info == newLocalInfo(name, pub, privArmor)
    IN  [err |-> "OK", info |-> info, db |-> kbWriteInfo(d, info, name)]

writeLedgerKey(d, pub, path, name) ==
    LET info == newLedgerInfo(name, pub, path)
    IN  [err |-> "OK", info |-> info, db |-> kbWriteInfo(d, info, name)]

writeOfflineKey(d, pub, name) ==
    LET info == newOfflineInfo(name, pub)
    IN  [err |-> "OK", info |-> info, db |-> kbWriteInfo(d, info, name)]

\* persistDerivedKey without the test of the password
persistDerivedKeyAlwaysLocal(d, seed, passwd, name, fullHdPath) ==
    LET derived == DerivePrivateKeyForPath(seed, fullHdPath)
    IN  IF derived.err # "OK"
        THEN [err |-> derived.err, info |-> NoInfo, db |-> d]
        ELSE writeLocalKey(d, derived.priv, name, passwd)

persistDerivedKey(d, seed, passwd, name, fullHdPath) ==
    LET derived == DerivePrivateKeyForPath(seed, fullHdPath)
    IN  IF derived.err # "OK"
        THEN [err |-> derived.err, info |-> NoInfo, db |-> d]
        ELSE IF passwd # ""
        THEN writeLocalKey(d, derived.priv, name, passwd)
        ELSE writeOfflineKey(d, PubKeyOf(derived.priv), name)

\* kb.Get(name)
Get(d, name) ==
    LET bs == d[infoKey(name)]
    IN  IF Len(bs) = 0 THEN [err |-> "NotFound", info |-> NoInfo]
        ELSE readInfo(bs)


\* kb.db.DeleteSync(infoKey(name))
DeleteSync(d, name) == [d EXCEPT ![infoKey(name)] = Absent]

\* bytes.Compare(a, b) < 0: the order the store iterates its keys in
BytesLess(a, b) ==
    \E i \in 1..(Len(a) + 1) :
        /\ \A j \in 1..(i - 1) : j <= Len(b) /\ a[j] = b[j]
        /\ \/ i = Len(a) + 1 /\ Len(b) >= i
           \/ i <= Len(a) /\ i <= Len(b) /\ a[i] < b[i]

\* kb.db.Iterator(nil, nil): the stored keys in ascending order
Iterator(d) ==
    LET stored == { k \in Keys : d[k] # Absent }
        n == Cardinality(stored)
    IN  CHOOSE s \in [1..n -> stored] :
            \A i, j \in 1..n : i < j => BytesLess(s[i], s[j])

----------------------------------------------------------------------------
(* The methods of dbKeybase: what each returns and the store it leaves *)

NoMnemonic == Mnemonic(0, 0, FALSE)

Fail(d, err) == [err |-> err, info |-> NoInfo, db |-> d]

CreateMnemonicResult(d, name, language, passwd, algo, ent) ==
    LET mnemonic == NewMnemonic(ent)
        seed == MnemonicToSeed(mnemonic)
        r == persistDerivedKey(d, seed, passwd, name, FullFundraiserPath)
    IN  IF language # "English"
        THEN [err |-> "UnsupportedLanguage", info |-> NoInfo,
              mnemonic |-> NoMnemonic, db |-> d]
        ELSE IF algo # "Secp256k1"
        THEN [err |-> "UnsupportedAlgorithm", info |-> NoInfo,
              mnemonic |-> NoMnemonic, db |-> d]
        ELSE [err |-> r.err, info |-> r.info, mnemonic |-> mnemonic, db |-> r.db]

\* CreateKey taking its seed from the number of words alone
CreateKeyResultSeedFromWordCount(d, name, mnemonic, passwd) ==
    LET s == MnemonicToSeedWithErrChecking(mnemonic)
    IN  IF WordCount(mnemonic) # 12 /\ WordCount(mnemonic) # 24
        THEN Fail(d, "InvalidMnemonicLength")
        ELSE IF s.err # "OK" THEN Fail(d, s.err)
        ELSE persistDerivedKey(d, WordCount(mnemonic) * 10, passwd, name,
                               FullFundraiserPath)

CreateKeyResult(d, name, mnemonic, passwd) ==
    LET s == MnemonicToSeedWithErrChecking(mnemonic)
    IN  IF WordCount(mnemonic) # 12 /\ WordCount(mnemonic) # 24
        THEN Fail(d, "InvalidMnemonicLength")
        ELSE IF s.err # "OK" THEN Fail(d, s.err)
        ELSE persistDerivedKey(d, s.seed, passwd, name, FullFundraiserPath)

CreateFundraiserKeyResult(d, name, mnemonic, passwd) ==
    LET s == MnemonicToSeedWithErrChecking(mnemonic)
    IN  IF WordCount(mnemonic) # 12
        THEN Fail(d, "InvalidMnemonicLength")
        ELSE IF s.err # "OK" THEN Fail(d, s.err)
        ELSE persistDerivedKey(d, s.seed, passwd, name, FullFundraiserPath)

DeriveResult(d, name, mnemonic, passwd, params) ==
    LET s == MnemonicToSeedWithErrChecking(mnemonic)
    IN  IF s.err # "OK" THEN Fail(d, s.err)
        ELSE persistDerivedKey(d, s.seed, passwd, name, params)

CreateLedgerResult(d, dev, name, path, algo) ==
    LET priv == NewPrivKeyLedgerSecp256k1(dev, path)
    IN  IF algo # "Secp256k1" THEN Fail(d, "UnsupportedAlgorithm")
        ELSE IF priv.err # "OK" THEN Fail(d, priv.err)
        ELSE writeLedgerKey(d, priv.pub, path, name)

CreateOfflineResult(d, name, pub) == writeOfflineKey(d, pub, name)

\* kb.List(): the decoded value of every key, in iteration order
ListResult(d) ==
    LET iter == Iterator(d)
    IN  IF \E i \in 1..Len(iter) : readInfo(d[iter[i]]).err # "OK"
        THEN [err |-> "DecodeError", res |-> <<>>]
        ELSE [err |-> "OK", res |-> [i \in 1..Len(iter) |-> readInfo(d[iter[i]]).info]]

\* Sign dropping the error of the decryption
SignResultIgnoresDecryptError(d, dev, name, passphrase, msg, devOk) ==
    LET g == Get(d, name)
        info == g.info
        dec == unarmorDecryptPrivKey(info.PrivKeyArmor, passphrase)
        led == NewPrivKeyLedgerSecp256k1(dev, info.Path)
    IN  IF g.err # "OK" THEN [err |-> g.err, sig |-> NoSig, pub |-> 0]
        ELSE IF info.type = "local"
        THEN IF Len(info.PrivKeyArmor) = 0
             THEN [err |-> "NoPrivateKeyMaterial", sig |-> NoSig, pub |-> 0]
             ELSE [err |-> "OK", sig |-> SignWith(dec.priv, msg),
                   pub |-> PubKeyOf(dec.priv)]
        ELSE IF led.err # "OK"
             THEN [err |-> led.err, sig |-> NoSig, pub |-> 0]
             ELSE IF ~devOk
             THEN [err |-> "DeviceUnavailable", sig |-> NoSig, pub |-> 0]
             ELSE [err |-> "OK", sig |-> LedgerSign(dev, led.path, msg),
                   pub |-> led.pub]

\* Sign on a localInfo or a ledgerInfo, or on a name that is not stored
\* (the offlineInfo case is SignOfflineReply); devOk: the device signs
SignResult(d, dev, name, passphrase, msg, devOk) ==
    LET g == Get(d, name)
        info == g.info
        dec == unarmorDecryptPrivKey(info.PrivKeyArmor, passphrase)
        led == NewPrivKeyLedgerSecp256k1(dev, info.Path)
    IN  IF g.err # "OK" THEN [err |-> g.err, sig |-> NoSig, pub |-> 0]
        ELSE IF info.type = "local"
        THEN IF Len(info.PrivKeyArmor) = 0
             THEN [err |-> "NoPrivateKeyMaterial", sig |-> NoSig, pub |-> 0]
             ELSE IF dec.err # "OK"
             THEN [err |-> dec.err, sig |-> NoSig, pub |-> 0]
             ELSE [err |-> "OK", sig |-> SignWith(dec.priv, msg),
                   pub |-> PubKeyOf(dec.priv)]
        ELSE IF led.err # "OK"
             THEN [err |-> led.err, sig |-> NoSig, pub |-> 0]
             ELSE IF ~devOk
             THEN [err |-> "DeviceUnavailable", sig |-> NoSig, pub |-> 0]
             ELSE [err |-> "OK", sig |-> LedgerSign(dev, led.path, msg),
                   pub |-> led.pub]

\* what can arrive on standard input: a line holding an encoded signature,
\* a line that is no encoding of a signature, or the end of the input
\* (the signature is by the holder of the record's key or by someone else)
Replies(storedPub, msg) ==
    { [kind |-> "signature", sig |-> [by |-> p, msg |-> msg]] :
        p \in {storedPub, 0} }
    \cup { [kind |-> "garbage", sig |-> NoSig], [kind |-> "eof", sig |-> NoSig] }

\* no line was read: the call did not go through standard input
NoReply == [kind |-> "none", sig |-> NoSig]

\* cdc.MustUnmarshalBinary([]byte(signed), sig) with sig passed by value:
\* the callee cannot assign the caller's sig, so the call either panics or
\* returns leaving sig nil
MustUnmarshalBinary(reply) ==
    { [panic |-> TRUE, sig |-> NoSig] } \cup
    IF reply.kind = "signature" THEN { [panic |-> FALSE, sig |-> NoSig] } ELSE {}

\* the offlineInfo case of Sign once a line was read, for one outcome u of
\* the decoding
SignOfflineResult(storedPub, reply, u) ==
    IF reply.kind = "eof" THEN [err |-> "ReadError", sig |-> NoSig, pub |-> 0]
    ELSE IF u.panic THEN [err |-> "Panic", sig |-> NoSig, pub |-> 0]
    ELSE [err |-> "OK", sig |-> u.sig, pub |-> storedPub]

NoArmor == <<>>

ExportResult(d, name) ==
    LET bz == d[infoKey(name)]
    IN  IF bz = Absent THEN [err |-> "NotFound", armor |-> NoArmor]
        ELSE [err |-> "OK", armor |-> armorInfoBytes(bz)]

ExportPubKeyResult(d, name) ==
    LET bz == d[infoKey(name)]
        r == readInfo(bz)
    IN  IF bz = Absent THEN [err |-> "NotFound", armor |-> NoArmor]
        ELSE IF r.err # "OK" THEN [err |-> r.err, armor |-> NoArmor]
        ELSE [err |-> "OK", armor |-> armorPubKeyBytes(PubKeyBytes(r.info.PubKey))]

\* Import without the test for an occupied name
ImportResultOverwrites(d, name, armorStr) ==
    LET u == unarmorInfoBytes(armorStr)
    IN  IF u.err # "OK" THEN [err |-> u.err, db |-> d]
        ELSE [err |-> "OK", db |-> [d EXCEPT ![infoKey(name)] = u.bz]]

\* Import storing the armor text as it came, without unarmoring it
ImportResultKeepsArmor(d, name, armorStr) ==
    LET bz == d[infoKey(name)]
        u == unarmorInfoBytes(armorStr)
    IN  IF Len(bz) > 0 THEN [err |-> "AlreadyExists", db |-> d]
        ELSE IF u.err # "OK" THEN [err |-> u.err, db |-> d]
        ELSE [err |-> "OK", db |-> [d EXCEPT ![infoKey(name)] = armorStr]]

ImportResult(d, name, armorStr) ==
    LET bz == d[infoKey(name)]
        u == unarmorInfoBytes(armorStr)
    IN  IF Len(bz) > 0 THEN [err |-> "AlreadyExists", db |-> d]
        ELSE IF u.err # "OK" THEN [err |-> u.err, db |-> d]
        ELSE [err |-> "OK", db |-> [d EXCEPT ![infoKey(name)] = u.bz]]

\* ImportPubKey returning before it writes the record
ImportPubKeyResultSkipsWrite(d, name, armorStr) ==
    LET bz == d[infoKey(name)]
        u == unarmorPubKeyBytes(armorStr)
        k == PubKeyFromBytes(u.bz)
    IN  IF Len(bz) > 0 THEN [err |-> "AlreadyExists", db |-> d]
        ELSE IF u.err # "OK" THEN [err |-> u.err, db |-> d]
        ELSE IF k.err # "OK" THEN [err |-> k.err, db |-> d]
        ELSE [err |-> "OK", db |-> d]

ImportPubKeyResult(d, name, armorStr) ==
    LET bz == d[infoKey(name)]
        u == unarmorPubKeyBytes(armorStr)
        k == PubKeyFromBytes(u.bz)
    IN  IF Len(bz) > 0 THEN [err |-> "AlreadyExists", db |-> d]
        ELSE IF u.err # "OK" THEN [err |-> u.err, db |-> d]
        ELSE IF k.err # "OK" THEN [err |-> k.err, db |-> d]
        ELSE [err |-> "OK", db |-> writeOfflineKey(d, k.pub, name).db]

\* Delete dropping the error of the decryption
DeleteResultIgnoresDecryptError(d, name, passphrase) ==
    LET g == Get(d, name)
    IN  IF g.err # "OK" THEN [err |-> g.err, db |-> d]
        ELSE IF g.info.type = "local"
        THEN [err |-> "OK", db |-> DeleteSync(d, name)]
        ELSE IF g.info.type = "ledger"
        THEN [err |-> "OK", db |-> d]
        ELSE IF passphrase # "yes"
        THEN [err |-> "ConfirmationRequired", db |-> d]
        ELSE [err |-> "OK", db |-> DeleteSync(d, name)]

\* Delete taking every non-empty token for the confirmation
DeleteResultAnyToken(d, name, passphrase) ==
    LET g == Get(d, name)
        dec == unarmorDecryptPrivKey(g.info.PrivKeyArmor, passphrase)
    IN  IF g.err # "OK" THEN [err |-> g.err, db |-> d]
        ELSE IF g.info.type = "local"
        THEN IF dec.err # "OK" THEN [err |-> dec.err, db |-> d]
             ELSE [err |-> "OK", db |-> DeleteSync(d, name)]
        ELSE IF g.info.type = "ledger"
        THEN [err |-> "OK", db |-> d]
        ELSE IF passphrase = ""
        THEN [err |-> "ConfirmationRequired", db |-> d]
        ELSE [err |-> "OK", db |-> DeleteSync(d, name)]

\* Delete with the ledgerInfo case falling through to the offlineInfo case
DeleteResultLedgerAsOffline(d, name, passphrase) ==
    LET g == Get(d, name)
        dec == unarmorDecryptPrivKey(g.info.PrivKeyArmor, passphrase)
    IN  IF g.err # "OK" THEN [err |-> g.err, db |-> d]
        ELSE IF g.info.type = "local"
        THEN IF dec.err # "OK" THEN [err |-> dec.err, db |-> d]
             ELSE [err |-> "OK", db |-> DeleteSync(d, name)]
        ELSE IF passphrase # "yes"
        THEN [err |-> "ConfirmationRequired", db |-> d]
        ELSE [err |-> "OK", db |-> DeleteSync(d, name)]

DeleteResult(d, name, passphrase) ==
    LET g == Get(d, name)
        dec == unarmorDecryptPrivKey(g.info.PrivKeyArmor, passphrase)
    IN  IF g.err # "OK" THEN [err |-> g.err, db |-> d]
        ELSE IF g.info.type = "local"
        THEN IF dec.err # "OK" THEN [err |-> dec.err, db |-> d]
             ELSE [err |-> "OK", db |-> DeleteSync(d, name)]
        ELSE IF g.info.type = "ledger"
        THEN [err |-> "OK", db |-> d]
        ELSE IF passphrase # "yes"
        THEN [err |-> "ConfirmationRequired", db |-> d]
        ELSE [err |-> "OK", db |-> DeleteSync(d, name)]

\* what getNewpass() returns
NewpassResults ==
    { [err |-> "OK", pass |-> p] : p \in NewPassphrases }
    \cup { [err |-> "PassphraseSourceFailed", pass |-> ""] }

\* Update writing the record before it looks at the error of getNewpass
UpdateResultWritesFirst(d, name, oldpass, src) ==
    LET g == Get(d, name)
        key == unarmorDecryptPrivKey(g.info.PrivKeyArmor, oldpass)
    IN  IF g.err # "OK" THEN [err |-> g.err, db |-> d]
        ELSE IF g.info.type = "local"
        THEN IF key.err # "OK" THEN [err |-> key.err, db |-> d]
             ELSE [err |-> src.err,
                   db |-> writeLocalKey(d, key.priv, name, src.pass).db]
        ELSE [err |-> "WrongKeyType", db |-> d]

\* Update encrypting under the old passphrase again
UpdateResultKeepsOldpass(d, name, oldpass, src) ==
    LET g == Get(d, name)
        key == unarmorDecryptPrivKey(g.info.PrivKeyArmor, oldpass)
    IN  IF g.err # "OK" THEN [err |-> g.err, db |-> d]
        ELSE IF g.info.type = "local"
        THEN IF key.err # "OK" THEN [err |-> key.err, db |-> d]
             ELSE IF src.err # "OK" THEN [err |-> src.err, db |-> d]
             ELSE [err |-> "OK", db |-> writeLocalKey(d, key.priv, name, oldpass).db]
        ELSE [err |-> "WrongKeyType", db |-> d]

UpdateResult(d, name, oldpass, src) ==
    LET g == Get(d, name)
        key == unarmorDecryptPrivKey(g.info.PrivKeyArmor, oldpass)
    IN  IF g.err # "OK" THEN [err |-> g.err, db |-> d]
        ELSE IF g.info.type = "local"
        THEN IF key.err # "OK" THEN [err |-> key.err, db |-> d]
             ELSE IF src.err # "OK" THEN [err |-> src.err, db |-> d]
             ELSE [err |-> "OK", db |-> writeLocalKey(d, key.priv, name, src.pass).db]
        ELSE [err |-> "WrongKeyType", db |-> d]

----------------------------------------------------------------------------
(* The state machine *)

\* the call made last: the name it was given, the error (or "OK") and the
\* values it returned; op is "SignBlocked" while Sign has printed its prompt
\* and has not returned
Ret(op, name, err, info, sig, pub, out) ==
    [op |-> op, name |-> name, err |-> err, info |-> info,
     sig |-> sig, pub |-> pub, out |-> out]

\* a Sign call waiting for its reply on standard input; cancel: its caller
\* has asked for it to be cancelled (or its deadline has passed)
NoPending ==
    [active |-> FALSE, name |-> <<>>, msg |-> "", pub |-> 0, cancel |-> FALSE]

Idle == ~pending.active

\* goroutines that call the creating methods of one dbKeybase at the same
\* time, and the name they both create under
Goroutines == { "g1", "g2" }

RaceNames == { << 97 >> }

\* a creating call of a goroutine: "writing" once it has built its Info and
\* is about to run kb.writeInfo, "done" once it has returned
NoCall == [stage |-> "idle", op |-> "none", name |-> <<>>, info |-> NoInfo,
           out |-> <<>>]

Init ==
    /\ db = [k \in Keys |-> Absent]
    /\ device \in 0..NumDevices
    /\ pending = NoPending
    /\ ret = Ret("none", <<>>, "OK", NoInfo, NoSig, 0, <<>>)
    /\ calls = [g \in Goroutines |-> NoCall]

\* the operator plugs a device in, swaps it or removes it
DeviceChange(d) ==
    /\ Idle
    /\ d # device
    /\ device' = d
    /\ UNCHANGED <<calls, db, pending, ret>>

CreateMnemonic(name, language, passwd, algo, ent) ==
    /\ Idle
    /\ LET r == CreateMnemonicResult(db, name, language, passwd, algo, ent)
       IN  /\ db' = r.db
           /\ ret' = Ret("CreateMnemonic", name, r.err, r.info, NoSig, 0, r.mnemonic)
    /\ UNCHANGED <<calls, device, pending>>

CreateKey(name, mnemonic, passwd) ==
    /\ Idle
    /\ LET r == CreateKeyResult(db, name, mnemonic, passwd)
       IN  /\ db' = r.db
           /\ ret' = Ret("CreateKey", name, r.err, r.info, NoSig, 0, <<>>)
    /\ UNCHANGED <<calls, device, pending>>

CreateFundraiserKey(name, mnemonic, passwd) ==
    /\ Idle
    /\ LET r == CreateFundraiserKeyResult(db, name, mnemonic, passwd)
       IN  /\ db' = r.db
           /\ ret' = Ret("CreateFundraiserKey", name, r.err, r.info,
                         NoSig, 0, <<>>)
    /\ UNCHANGED <<calls, device, pending>>

Derive(name, mnemonic, passwd, params) ==
    /\ Idle
    /\ LET r == DeriveResult(db, name, mnemonic, passwd, params)
       IN  /\ db' = r.db
           /\ ret' = Ret("Derive", name, r.err, r.info, NoSig, 0, <<>>)
    /\ UNCHANGED <<calls, device, pending>>

CreateLedger(name, path, algo) ==
    /\ Idle
    /\ LET r == CreateLedgerResult(db, device, name, path, algo)
       IN  /\ db' = r.db
           /\ ret' = Ret("CreateLedger", name, r.err, r.info, NoSig, 0, <<>>)
    /\ UNCHANGED <<calls, device, pending>>

CreateOffline(name, pub) ==
    /\ Idle
    /\ LET r == CreateOfflineResult(db, name, pub)
       IN  /\ db' = r.db
           /\ ret' = Ret("CreateOffline", name, r.err, r.info, NoSig, 0, <<>>)
    /\ UNCHANGED <<calls, device, pending>>

List ==
    /\ Idle
    /\ LET r == ListResult(db)
       IN  ret' = Ret("List", <<>>, r.err, NoInfo, NoSig, 0, r.res)
    /\ UNCHANGED <<calls, db, device, pending>>

Lookup(name) ==
    /\ Idle
    /\ LET r == Get(db, name)
       IN  ret' = Ret("Get", name, r.err, r.info, NoSig, 0, <<>>)
    /\ UNCHANGED <<calls, db, device, pending>>

\* Sign on an offlineInfo prints the message and blocks reading the reply;
\* on the other variants it returns at once
Sign(name, passphrase, msg, devOk) ==
    /\ Idle
    /\ LET g == Get(db, name)
           r == SignResult(db, device, name, passphrase, msg, devOk)
       IN  IF g.err = "OK" /\ g.info.type = "offline"
           THEN /\ pending' = [active |-> TRUE, name |-> name, msg |-> msg,
                               pub |-> g.info.PubKey, cancel |-> FALSE]
                /\ ret' = Ret("SignBlocked", name, "OK", NoInfo,
                              NoSig, 0, NoReply)
           ELSE /\ pending' = pending
                /\ ret' = Ret("Sign", name, r.err, NoInfo, r.sig,
                              r.pub, NoReply)
    /\ UNCHANGED <<calls, db, device>>

\* the caller of a blocked Sign asks for its cancellation, or its deadline
\* passes: Sign takes no context and no deadline and buf.ReadString is not
\* interruptible, so nothing of the call changes
RequestCancel ==
    /\ pending.active
    /\ ~pending.cancel
    /\ pending' = [pending EXCEPT !.cancel = TRUE]
    /\ UNCHANGED <<calls, db, device, ret>>

\* the blocked Sign reads a line (or the end of the input) and returns
SignOfflineReply(reply, u) ==
    /\ pending.active
    /\ LET r == SignOfflineResult(pending.pub, reply, u)
       IN  ret' = Ret("Sign", pending.name, r.err, NoInfo, r.sig,
                      r.pub, reply)
    /\ pending' = NoPending
    /\ UNCHANGED <<calls, db, device>>

Export(name) ==
    /\ Idle
    /\ LET r == ExportResult(db, name)
       IN  ret' = Ret("Export", name, r.err, NoInfo, NoSig, 0, r.armor)
    /\ UNCHANGED <<calls, db, device, pending>>

ExportPubKey(name) ==
    /\ Idle
    /\ LET r == ExportPubKeyResult(db, name)
       IN  ret' = Ret("ExportPubKey", name, r.err, NoInfo, NoSig, 0, r.armor)
    /\ UNCHANGED <<calls, db, device, pending>>

Import(name, armorStr) ==
    /\ Idle
    /\ LET r == ImportResult(db, name, armorStr)
       IN  /\ db' = r.db
           /\ ret' = Ret("Import", name, r.err, NoInfo, NoSig, 0, <<>>)
    /\ UNCHANGED <<calls, device, pending>>

ImportPubKey(name, armorStr) ==
    /\ Idle
    /\ LET r == ImportPubKeyResult(db, name, armorStr)
       IN  /\ db' = r.db
           /\ ret' = Ret("ImportPubKey", name, r.err, NoInfo, NoSig, 0, <<>>)
    /\ UNCHANGED <<calls, device, pending>>

Delete(name, passphrase) ==
    /\ Idle
    /\ LET r == DeleteResult(db, name, passphrase)
       IN  /\ db' = r.db
           /\ ret' = Ret("Delete", name, r.err, NoInfo, NoSig, 0, <<>>)
    /\ UNCHANGED <<calls, device, pending>>

Update(name, oldpass, src) ==
    /\ Idle
    /\ LET r == UpdateResult(db, name, oldpass, src)
       IN  /\ db' = r.db
           /\ ret' = Ret("Update", name, r.err, NoInfo, NoSig, 0, <<>>)
    /\ UNCHANGED <<calls, device, pending>>

\* A creating method called by goroutine g next to the calls of the others:
\* it builds its Info without reading the store (r is what it computes) and
\* returns at once on an error; its one access to the store, kb.writeInfo, is
\* the separate step WriteAndReturn
StartCreate(g, op, name, r, out) ==
    /\ calls[g].stage # "writing"
    /\ IF r.err = "OK"
       THEN /\ calls' = [calls EXCEPT ![g] =
                           [stage |-> "writing", op |-> op, name |-> name,
                            info |-> r.info, out |-> out]]
            /\ ret' = ret
       ELSE /\ calls' = [calls EXCEPT ![g] = NoCall]
            /\ ret' = Ret(op, name, r.err, r.info, NoSig, 0, out)
    /\ UNCHANGED <<db, device, pending>>

StartCreateMnemonic(g, name, passwd, ent) ==
    LET r == CreateMnemonicResult(db, name, "English", passwd, "Secp256k1", ent)
    IN  StartCreate(g, "CreateMnemonic", name, r, r.mnemonic)

StartCreateKey(g, name, mnemonic, passwd) ==
    StartCreate(g, "CreateKey", name,
                CreateKeyResult(db, name, mnemonic, passwd), <<>>)

StartCreateFundraiserKey(g, name, mnemonic, passwd) ==
    StartCreate(g, "CreateFundraiserKey", name,
                CreateFundraiserKeyResult(db, name, mnemonic, passwd), <<>>)

StartDerive(g, name, mnemonic, passwd, params) ==
    StartCreate(g, "Derive", name,
                DeriveResult(db, name, mnemonic, passwd, params), <<>>)

StartCreateLedger(g, name, path) ==
    StartCreate(g, "CreateLedger", name,
                CreateLedgerResult(db, device, name, path, "Secp256k1"), <<>>)

StartCreateOffline(g, name, pub) ==
    StartCreate(g, "CreateOffline", name,
                CreateOfflineResult(db, name, pub), <<>>)

\* kb.writeInfo(info, name) of goroutine g's call, and the return of the call
WriteAndReturn(g) ==
    /\ calls[g].stage = "writing"
    /\ db' = kbWriteInfo(db, calls[g].info, calls[g].name)
    /\ ret' = Ret(calls[g].op, calls[g].name, "OK", calls[g].info, NoSig, 0,
                  calls[g].out)
    /\ calls' = [calls EXCEPT ![g].stage = "done"]
    /\ UNCHANGED <<device, pending>>

\* the mnemonic the racing CreateKey, CreateFundraiserKey and Derive are
\* handed: a valid 12-word one
RaceMnemonics == { Mnemonic(12, 1, TRUE) }

\* armor text handed to Import and ImportPubKey: what Export and
\* ExportPubKey return for the stored names, a record armor around bytes that
\* are no record's, a public-key armor around bytes that are no key, and text
\* that is no armor
InfoArmors(d) ==
    { ExportResult(d, n).armor : n \in { m \in Names : ExportResult(d, m).err = "OK" } }

PubKeyArmors(d) ==
    { ExportPubKeyResult(d, n).armor :
        n \in { m \in Names : ExportPubKeyResult(d, m).err = "OK" } }

\* a call whose arguments make it fail before it looks at the passphrase is
\* made with one passphrase, not with each
Tried(argsOk, passwd) == argsOk \/ passwd # ""

CreateMnemonicInputs ==
    { q \in Languages \X Algos \X CreatePassphrases :
        Tried(q[1] = "English" /\ q[2] = "Secp256k1", q[3]) }

CreateKeyInputs ==
    { q \in MnemonicInputs \X CreatePassphrases :
        Tried(q[1].ok /\ WordCount(q[1]) \in {12, 24}, q[2]) }

CreateFundraiserKeyInputs ==
    { q \in MnemonicInputs \X CreatePassphrases :
        Tried(q[1].ok /\ WordCount(q[1]) = 12, q[2]) }

DeriveInputs ==
    { q \in DeriveMnemonics \X CreatePassphrases : Tried(q[1].ok, q[2]) }

\* whether the device signs when asked to: it matters for a ledgerInfo only
DeviceOutcomes(d, name) ==
    IF Get(d, name).info.type = "ledger" THEN BOOLEAN ELSE {TRUE}

BadArmors == { armorPubKeyBytes(<< "junk", 0 >>), << "junk" >> }

\* a well-framed record armor whose body is no encoding of an Info
ForeignInfoArmors == { armorInfoBytes(<< "junk" >>) }

\* the calls whose inputs depend on what is stored
SignCall ==
    \E name \in Names, passphrase \in Passphrases, msg \in Msgs :
        \E devOk \in DeviceOutcomes(db, name) :
            Sign(name, passphrase, msg, devOk)

SignOfflineReplyCall ==
    \E reply \in Replies(pending.pub, pending.msg) :
        \E u \in MustUnmarshalBinary(reply) :
            SignOfflineReply(reply, u)

ImportCall ==
    \E name \in Names,
       armorStr \in InfoArmors(db) \cup ForeignInfoArmors \cup BadArmors :
        Import(name, armorStr)

ImportPubKeyCall ==
    \E name \in Names, armorStr \in PubKeyArmors(db) \cup BadArmors :
        ImportPubKey(name, armorStr)

Next ==
    \/ \E d \in 0..NumDevices : DeviceChange(d)
    \/ \E name \in Names, q \in CreateMnemonicInputs, ent \in 1..NumEntropy :
            CreateMnemonic(name, q[1], q[3], q[2], ent)
    \/ \E name \in Names, q \in CreateKeyInputs : CreateKey(name, q[1], q[2])
    \/ \E name \in Names, q \in CreateFundraiserKeyInputs :
            CreateFundraiserKey(name, q[1], q[2])
    \/ \E name \in Names, q \in DeriveInputs, params \in HDPaths :
            Derive(name, q[1], q[2], params)
    \/ \E name \in Names, path \in HDPaths, algo \in Algos :
            CreateLedger(name, path, algo)
    \/ \E name \in Names, pub \in PubKeys : CreateOffline(name, pub)
    \/ List
    \/ \E name \in Names : Lookup(name)
    \/ SignCall
    \/ RequestCancel
    \/ SignOfflineReplyCall
    \/ \E name \in Names : Export(name)
    \/ \E name \in Names : ExportPubKey(name)
    \/ ImportCall
    \/ ImportPubKeyCall
    \/ \E name \in Names, passphrase \in Passphrases : Delete(name, passphrase)
    \/ \E name \in Names, oldpass \in Passphrases, src \in NewpassResults :
            Update(name, oldpass, src)

\* every call but the arrival of a line on standard input, which waits for a
\* person: nothing makes that person answer
NextButReply ==
    \/ \E d \in 0..NumDevices : DeviceChange(d)
    \/ \E name \in Names, q \in CreateMnemonicInputs, ent \in 1..NumEntropy :
            CreateMnemonic(name, q[1], q[3], q[2], ent)
    \/ \E name \in Names, q \in CreateKeyInputs : CreateKey(name, q[1], q[2])
    \/ \E name \in Names, q \in CreateFundraiserKeyInputs :
            CreateFundraiserKey(name, q[1], q[2])
    \/ \E name \in Names, q \in DeriveInputs, params \in HDPaths :
            Derive(name, q[1], q[2], params)
    \/ \E name \in Names, path \in HDPaths, algo \in Algos :
            CreateLedger(name, path, algo)
    \/ \E name \in Names, pub \in PubKeys : CreateOffline(name, pub)
    \/ List
    \/ \E name \in Names : Lookup(name)
    \/ SignCall
    \/ RequestCancel
    \/ \E name \in Names : Export(name)
    \/ \E name \in Names : ExportPubKey(name)
    \/ ImportCall
    \/ ImportPubKeyCall
    \/ \E name \in Names, passphrase \in Passphrases : Delete(name, passphrase)
    \/ \E name \in Names, oldpass \in Passphrases, src \in NewpassResults :
            Update(name, oldpass, src)

Spec == Init /\ [][Next]_vars

\* the callers and the program keep running; the person at the terminal may
\* never type a reply
SpecLive == Init /\ [][Next]_vars /\ WF_vars(NextButReply)

\* two goroutines creating under one name, interleaved at the accesses to
\* the store
NextRace ==
    \/ \E g \in Goroutines, name \in RaceNames, passwd \in CreatePassphrases,
          ent \in 1..NumEntropy :
            StartCreateMnemonic(g, name, passwd, ent)
    \/ \E g \in Goroutines, name \in RaceNames, mnemonic \in RaceMnemonics,
          passwd \in CreatePassphrases :
            StartCreateKey(g, name, mnemonic, passwd)
    \/ \E g \in Goroutines, name \in RaceNames, mnemonic \in RaceMnemonics,
          passwd \in CreatePassphrases :
            StartCreateFundraiserKey(g, name, mnemonic, passwd)
    \/ \E g \in Goroutines, name \in RaceNames, mnemonic \in RaceMnemonics,
          passwd \in CreatePassphrases, params \in HDPaths :
            StartDerive(g, name, mnemonic, passwd, params)
    \/ \E g \in Goroutines, name \in RaceNames, path \in HDPaths :
            StartCreateLedger(g, name, path)
    \/ \E g \in Goroutines, name \in RaceNames, pub \in LedgerPubs :
            StartCreateOffline(g, name, pub)
    \/ \E g \in Goroutines : WriteAndReturn(g)

SpecRace == Init /\ [][NextRace]_vars

----------------------------------------------------------------------------
(* Properties *)

\* the record stored under a name, and whether there is one
Stored(d, name) == d[infoKey(name)] # Absent

RecordOf(d, name) == Get(d, name).info

\* the passphrase a Local record's private-key armor was encrypted under
EncryptedUnder(info) == info.PrivKeyArmor[2]

IsLocal(d, name) == Stored(d, name) /\ RecordOf(d, name).type = "local"

IsLedger(d, name) == Stored(d, name) /\ RecordOf(d, name).type = "ledger"

IsOffline(d, name) == Stored(d, name) /\ RecordOf(d, name).type = "offline"

\* C1: Import and ImportPubKey on a name that holds a record fail with
\* AlreadyExists and leave the bytes stored under that name as they were.
C1_ImportOnOccupiedNameFails ==
    [][/\ ret'.op = "Import" =>
            \A name \in Names,
               armorStr \in InfoArmors(db) \cup ForeignInfoArmors \cup BadArmors :
              (Stored(db, name) /\ Import(name, armorStr))
                 => /\ ret'.err = "AlreadyExists"
                    /\ db'[infoKey(name)] = db[infoKey(name)]
       /\ ret'.op = "ImportPubKey" =>
            \A name \in Names, armorStr \in PubKeyArmors(db) \cup BadArmors :
              (Stored(db, name) /\ ImportPubKey(name, armorStr))
                 => /\ ret'.err = "AlreadyExists"
                    /\ db'[infoKey(name)] = db[infoKey(name)]
      ]_vars

\* an import was refused on a name that holds a record
C1_Witness ==
    /\ ret.op \in {"Import", "ImportPubKey"}
    /\ ret.err = "AlreadyExists"
    /\ Stored(db, ret.name)

\* C2: Delete on a Local record fails and leaves the record as it was when
\* the passphrase is not the one the record is encrypted under; it succeeds
\* and removes the record, so that Get fails NotFound, when it is.
C2_DeleteLocalNeedsPassphrase ==
    [][ret'.op = "Delete" => \A name \in Names, passphrase \in Passphrases :
        (IsLocal(db, name) /\ Delete(name, passphrase))
           => IF passphrase = EncryptedUnder(RecordOf(db, name))
              THEN /\ ret'.err = "OK"
                   /\ ~Stored(db', name)
                   /\ Get(db', name).err = "NotFound"
              ELSE /\ ret'.err # "OK"
                   /\ db'[infoKey(name)] = db[infoKey(name)]
      ]_vars

\* a Delete with the wrong passphrase was refused and the Local record stays
C2_Witness ==
    /\ ret.op = "Delete"
    /\ ret.err = "WrongPassphrase"
    /\ IsLocal(db, ret.name)

\* C3: Delete on a WatchOnly record succeeds and removes the record exactly
\* when the token is "yes"; with any other token it fails and the record
\* stays as it was.
C3_DeleteOfflineNeedsYes ==
    [][ret'.op = "Delete" => \A name \in Names, passphrase \in Passphrases :
        (IsOffline(db, name) /\ Delete(name, passphrase))
           => IF passphrase = "yes"
              THEN /\ ret'.err = "OK"
                   /\ ~Stored(db', name)
                   /\ Get(db', name).err = "NotFound"
              ELSE /\ ret'.err # "OK"
                   /\ db'[infoKey(name)] = db[infoKey(name)]
      ]_vars

\* a Delete with another token was refused and the WatchOnly record stays
C3_Witness ==
    /\ ret.op = "Delete"
    /\ ret.err = "ConfirmationRequired"
    /\ IsOffline(db, ret.name)

\* C4: Sign on a Local record returns a signature of the message that
\* verifies under the record's stored public key when the passphrase is the
\* one the record is encrypted under, and fails with WrongPassphrase,
\* returning no signature and no public key, with any other passphrase.
C4_SignLocal ==
    [][ret'.op = "Sign" => \A name \in Names, passphrase \in Passphrases,
                              msg \in Msgs :
        (IsLocal(db, name) /\ Sign(name, passphrase, msg, TRUE))
           => IF passphrase = EncryptedUnder(RecordOf(db, name))
              THEN /\ ret'.err = "OK"
                   /\ VerifyBytes(RecordOf(db, name).PubKey, msg, ret'.sig)
              ELSE /\ ret'.err = "WrongPassphrase"
                   /\ ret'.sig = NoSig
                   /\ ret'.pub = 0
      ]_vars

\* Sign returned a signature for a Local record whose passphrase was set by
\* Update
C4_Witness ==
    /\ ret.op = "Sign"
    /\ ret.err = "OK"
    /\ IsLocal(db, ret.name)
    /\ EncryptedUnder(RecordOf(db, ret.name)) = "yes"
    /\ \E msg \in Msgs : VerifyBytes(RecordOf(db, ret.name).PubKey, msg, ret.sig)

\* C5: Sign on a WatchOnly record does not return before a reply was read
\* from the operator channel, and once a well-formed reply is read it returns
\* successfully with exactly that reply as the signature, paired with the
\* record's stored public key.
C5_SignOfflineReturnsReply ==
    /\ (pending.active => ret.op = "SignBlocked")
    /\ (ret.op = "Sign" /\ ret.out.kind = "signature")
          => /\ ret.err = "OK"
             /\ ret.sig = ret.out.sig
             /\ ret.pub = RecordOf(db, ret.name).PubKey

\* every record's Name is the name of the key it is stored under
NamesMatchKeys(d) ==
    \A n \in Names : Stored(d, n) => RecordOf(d, n).Name = n

\* a <= b for names as byte strings
NameLessEq(a, b) == a = b \/ BytesLess(a, b)

\* C6: List returns the identities in ascending lexicographic order of
\* their names, whichever names are stored.
C6_ListAscendingByName ==
    (ret.op = "List" /\ ret.err = "OK" /\ NamesMatchKeys(db))
       => \A i, j \in 1..Len(ret.out) :
             i < j => NameLessEq(ret.out[i].Name, ret.out[j].Name)

\* C7: a call that returns a failure leaves the whole store as it was.
C7_FailureLeavesStore ==
    [][ret'.err # "OK" => db' = db]_vars

\* Update failed at the new-passphrase source, after the decryption, and
\* the Local record is still encrypted under the passphrase it had
C7_Witness ==
    /\ ret.op = "Update"
    /\ ret.err = "PassphraseSourceFailed"
    /\ IsLocal(db, ret.name)

\* C8: Update fails with WrongKeyType on a Hardware or WatchOnly record and
\* with WrongPassphrase on a Local record when oldpass is not its passphrase;
\* when it succeeds the record is still Local with the same public key, Sign
\* succeeds with the passphrase the source returned, and Sign with the old
\* passphrase fails whenever the new one differs from it.
C8_UpdateRotates ==
    [][ret'.op = "Update" =>
        \A name \in {ret'.name} \cap Names :
        \A oldpass \in Passphrases, src \in NewpassResults :
          (Stored(db, name) /\ Update(name, oldpass, src)) =>
            LET old == RecordOf(db, name)
                new == RecordOf(db', name)
            IN  /\ old.type \in {"ledger", "offline"} => ret'.err = "WrongKeyType"
                /\ (old.type = "local" /\ oldpass # EncryptedUnder(old))
                      => ret'.err = "WrongPassphrase"
                /\ ret'.err = "OK" =>
                      /\ old.type = "local"
                      /\ new.type = "local"
                      /\ new.PubKey = old.PubKey
                      /\ \A msg \in Msgs :
                           LET s == SignResult(db', device', name, src.pass, msg, TRUE)
                           IN  /\ s.err = "OK"
                               /\ VerifyBytes(new.PubKey, msg, s.sig)
                      /\ src.pass # oldpass =>
                           \A msg \in Msgs :
                             SignResult(db', device', name, oldpass, msg, TRUE).err
                                = "WrongPassphrase"
      ]_vars

\* Update succeeded and the record is encrypted under a passphrase that only
\* Update sets
C8_Witness ==
    /\ ret.op = "Update"
    /\ ret.err = "OK"
    /\ IsLocal(db, ret.name)
    /\ EncryptedUnder(RecordOf(db, ret.name)) = "yes"

C10_CreateMnemonicOnOccupiedNameFails ==
    [][ret'.op = "CreateMnemonic" =>
        \A name \in Names, passwd \in CreatePassphrases, ent \in 1..NumEntropy :
          (Stored(db, name)
              /\ CreateMnemonic(name, "English", passwd, "Secp256k1", ent))
             => /\ ret'.err # "OK"
                /\ db'[infoKey(name)] = db[infoKey(name)]
      ]_vars

\* C11: Delete with the token "yes" on a reference to a Ledger key removes
\* the record, as it does for an offline key, so that Get then fails NotFound.
C11_DeleteLedgerWithYesRemoves ==
    [][ret'.op = "Delete" =>
        \A name \in {ret'.name} \cap Names :
          (IsLedger(db, name) /\ Delete(name, "yes"))
             => /\ ~Stored(db', name)
                /\ Get(db', name).err = "NotFound"
      ]_vars

HasRecord(d, name) == Stored(d, name) /\ Get(d, name).err = "OK"

\* C12: for a stored name n1 of any variant and a free name, Import of what
\* Export(n1) returns succeeds, leaves the record under n1 as it was and
\* stores a record of the same variant and public key; when n1 is Local,
\* Sign under the new name succeeds for exactly the passphrases for which
\* Sign under n1 does.
C12_ImportOfExport ==
    [][ret'.op = "Import" =>
        \A name \in {ret'.name} \cap Names, n1 \in Names :
          (/\ HasRecord(db, n1)
           /\ ~Stored(db, name)
           /\ Import(name, ExportResult(db, n1).armor))
             => LET old == RecordOf(db, n1)
                    new == RecordOf(db', name)
                IN  /\ ret'.err = "OK"
                    /\ db'[infoKey(n1)] = db[infoKey(n1)]
                    /\ HasRecord(db', name)
                    /\ new.type = old.type
                    /\ new.PubKey = old.PubKey
                    /\ old.type = "local" =>
                         \A p \in Passphrases, msg \in Msgs :
                           LET s1 == SignResult(db', device', n1, p, msg, TRUE)
                               s2 == SignResult(db', device', name, p, msg, TRUE)
                           IN  /\ (s2.err = "OK") = (s1.err = "OK")
                               /\ s2.err = "OK" =>
                                    VerifyBytes(old.PubKey, msg, s2.sig)
      ]_vars

\* a Local record was imported under the other name and both names sign
C12_Witness ==
    /\ ret.op = "Import"
    /\ ret.err = "OK"
    /\ IsLocal(db, ret.name)
    /\ \E n1 \in Names \ {ret.name} :
         /\ db[infoKey(n1)] = db[infoKey(ret.name)]
         /\ \E p \in Passphrases, msg \in Msgs :
              SignResult(db, device, ret.name, p, msg, TRUE).err = "OK"

\* C13: for a stored name n1 of any variant and a free name n2, ImportPubKey
\* of what ExportPubKey(n1) returns succeeds and stores under n2 a WatchOnly
\* record named n2 with the public key of n1's record, no private-key armor
\* and no path; the record under n1 is as it was.
C13_ImportPubKeyOfExportPubKey ==
    [][ret'.op = "ImportPubKey" =>
        \A name \in {ret'.name} \cap Names, n1 \in Names :
          (/\ HasRecord(db, n1)
           /\ ~Stored(db, name)
           /\ ImportPubKey(name, ExportPubKeyResult(db, n1).armor))
             => /\ ret'.err = "OK"
                /\ db'[infoKey(n1)] = db[infoKey(n1)]
                /\ Get(db', name).err = "OK"
                /\ RecordOf(db', name) =
                      newOfflineInfo(name, RecordOf(db, n1).PubKey)
                /\ db'[infoKey(name)] =
                      writeInfo(newOfflineInfo(name, RecordOf(db, n1).PubKey))
      ]_vars

\* the public key of a Hardware record was imported under the other name as
\* a WatchOnly record
C13_Witness ==
    /\ ret.op = "ImportPubKey"
    /\ ret.err = "OK"
    /\ IsOffline(db, ret.name)
    /\ \E n1 \in Names \ {ret.name} :
         /\ IsLedger(db, n1)
         /\ RecordOf(db, n1).PubKey = RecordOf(db, ret.name).PubKey

\* the public key CreateMnemonic returns together with the mnemonic it drew
\* from the entropy ent
CreatedPubKey(d, n1, p1, ent) ==
    CreateMnemonicResult(d, n1, "English", p1, "Secp256k1", ent).info.PubKey

\* C14: CreateKey with a mnemonic CreateMnemonic returned, under any name and
\* passphrase, stores an identity with the public key CreateMnemonic
\* returned; doing it again gives the same key; what is stored is built from
\* the name, that public key and the encrypted private key only, the mnemonic
\* (and the seed) is no part of it.
C14_RestoreGivesCreatedKey ==
    [][ret'.op = "CreateKey" =>
        \A name \in {ret'.name} \cap Names :
        \A ent \in 1..NumEntropy, p2 \in CreatePassphrases :
          CreateKey(name, NewMnemonic(ent), p2) =>
            LET m == NewMnemonic(ent)
                seed == MnemonicToSeed(m)
                priv == DerivePrivateKeyForPath(seed, FullFundraiserPath).priv
                again == CreateKeyResult(db', name, m, p2)
            IN  /\ ret'.err = "OK"
                /\ \A n1 \in Names, p1 \in CreatePassphrases :
                     /\ ret'.info.PubKey = CreatedPubKey(db, n1, p1, ent)
                     /\ RecordOf(db', name).PubKey = CreatedPubKey(db, n1, p1, ent)
                /\ again.err = "OK"
                /\ again.info.PubKey = ret'.info.PubKey
                /\ again.db = db'
                /\ db'[infoKey(name)] =
                     writeInfo(IF p2 # ""
                               THEN newLocalInfo(name, ret'.info.PubKey,
                                                 encryptArmorPrivKey(priv, p2))
                               ELSE newOfflineInfo(name, ret'.info.PubKey))
                /\ ret'.info.PubKey # seed
      ]_vars

\* CreateKey restored, under the other name, the key of a record made from a
\* fresh 24-word mnemonic
C14_Witness ==
    /\ ret.op = "CreateKey"
    /\ ret.err = "OK"
    /\ \E ent \in 1..NumEntropy, p1 \in CreatePassphrases :
         /\ ret.info.PubKey = CreatedPubKey(db, ret.name, p1, ent)
         /\ \E n1 \in Names \ {ret.name} :
              /\ HasRecord(db, n1)
              /\ RecordOf(db, n1).PubKey = ret.info.PubKey

\* C17: in every reachable state each key "<n>.info" holds one record and
\* the name field of that record is n.
C17_RecordNamedAsItsKey ==
    \A n \in Names :
        Stored(db, n) =>
            /\ Get(db, n).err = "OK"
            /\ RecordOf(db, n).Name = n

\* C18: in every reachable state every stored value is a record with a public
\* key and one variant: a Local record with non-empty encrypted private-key
\* armor and nothing else, a Hardware record with a path and no private-key
\* bytes, a WatchOnly record with the public key only.
C18_StoredRecordsWellFormed ==
    \A n \in Names :
        Stored(db, n) =>
            LET g == Get(db, n)
                r == g.info
            IN  /\ g.err = "OK"
                /\ writeInfo(r) = db[infoKey(n)]
                /\ r.PubKey \in PubKeys
                /\ r.type = "local" =>
                     /\ Len(r.PrivKeyArmor) > 0
                     /\ unarmorDecryptPrivKey(r.PrivKeyArmor, EncryptedUnder(r)).err = "OK"
                     /\ \A p \in Passphrases \ {EncryptedUnder(r)} :
                          unarmorDecryptPrivKey(r.PrivKeyArmor, p).err # "OK"
                     /\ r.Path = 0
                /\ r.type = "ledger" =>
                     /\ r.Path \in HDPaths
                     /\ r.PrivKeyArmor = <<>>
                /\ r.type = "offline" =>
                     /\ r.PrivKeyArmor = <<>>
                     /\ r.Path = 0

\* C19: Sign on a Hardware record either fails with DeviceUnavailable or
\* returns the device's signature for the stored path together with the
\* public key stored in the record; the store is unchanged either way.
C19_SignLedgerReturnsStoredKey ==
    [][ret'.op = "Sign" =>
        \A name \in {ret'.name} \cap Names :
        \A passphrase \in Passphrases, msg \in Msgs, devOk \in BOOLEAN :
          (IsLedger(db, name) /\ Sign(name, passphrase, msg, devOk))
             => /\ db' = db
                /\ \/ ret'.err = "DeviceUnavailable"
                   \/ /\ ret'.err = "OK"
                      /\ ret'.sig = LedgerSign(device, RecordOf(db, name).Path, msg)
                      /\ ret'.pub = RecordOf(db, name).PubKey
      ]_vars

\* C20: a Sign call suspended on a WatchOnly record whose cancellation was
\* asked for returns in the end (with a Cancelled or Timeout failure when no
\* reply is supplied) instead of staying blocked for ever.
C20_CancelledSignReturns ==
    (pending.active /\ pending.cancel)
        ~> (/\ ~pending.active
            /\ ret.op = "Sign"
            /\ ret.err \in {"Cancelled", "Timeout"} \/ ret.out # NoReply)

CreateOps ==
    { "CreateMnemonic", "CreateKey", "CreateFundraiserKey", "Derive",
      "CreateLedger", "CreateOffline" }

====
